---- MODULE Spec2Model ----
(***************************************************************************)
(* Model of src/app.py: the VLESS link classification pipeline.            *)
(*                                                                         *)
(* Text is modelled as sequences of one-character strings, so that the     *)
(* string operations of the source (lower, startswith, "in", the two       *)
(* regular expressions of extract_ip) are computed on the characters.      *)
(* links holds each Link as its index in LinkTexts, the table of the Link  *)
(* texts the input can hold; Text gives the characters.  The output lists  *)
(* of main() hold the positions (indices into links) of their Links;       *)
(* LinksOf gives the list of Links at these positions.                     *)
(***************************************************************************)
EXTENDS Integers, Sequences, FiniteSets, TLC

(***************************************************************************)
(* Bounds of the model.                                                    *)
(***************************************************************************)
MaxLines == 3
MaxProbes == 3

(***************************************************************************)
(* Configuration constants of the source.                                  *)
(***************************************************************************)
MIN_DB_SIZE == 1500000
MAX_AGE_DAYS == 30

BAD_ASN_KEYWORDS ==
  << <<"c","l","o","u","d","f","l","a","r","e">>,
     <<"f","a","s","t","l","y">>,
     <<"a","k","a","m","a","i">>,
     <<"c","d","n">>,
     <<"h","e","t","z","n","e","r">>,
     <<"o","v","h">>,
     <<"d","i","g","i","t","a","l","o","c","e","a","n">>,
     <<"v","u","l","t","r">>,
     <<"l","i","n","o","d","e">>,
     <<"c","o","n","t","a","b","o">>,
     <<"i","o","n","o","s">>,
     <<"s","c","a","l","e","w","a","y">>,
     <<"o","r","a","c","l","e">>,
     <<"a","m","a","z","o","n"," ","a","w","s">>,
     <<"g","o","o","g","l","e"," ","c","l","o","u","d">>,
     <<"m","i","c","r","o","s","o","f","t"," ","a","z","u","r","e">> >>

\* The keys of FILES, in the order main() saves them.
FILES == <<"stage1", "final", "isp_problem", "rejected">>

\* The values CHECK_IP_MODE is documented to take; "none" stands for None/False.
ModeOptions == {"geo", "api", "none"}

(***************************************************************************)
(* String operations.                                                      *)
(***************************************************************************)
UpperChars == <<"A","B","C","D","E","F","G","H","I","J","K","L","M",
                "N","O","P","Q","R","S","T","U","V","W","X","Y","Z">>
LowerChars == <<"a","b","c","d","e","f","g","h","i","j","k","l","m",
                "n","o","p","q","r","s","t","u","v","w","x","y","z">>
DigitChars == <<"0","1","2","3","4","5","6","7","8","9">>

UpperSet == {UpperChars[k] : k \in 1..26}
DigitSet == {DigitChars[k] : k \in 1..10}
LowerOf == [c \in UpperSet |-> LowerChars[CHOOSE k \in 1..26 : UpperChars[k] = c]]

LowerChar(c) == IF c \in UpperSet THEN LowerOf[c] ELSE c

\* str.lower()
lower(s) == [k \in 1..Len(s) |-> LowerChar(s[k])]

\* str.startswith(prefix)
startswith(s, prefix) ==
  /\ Len(s) >= Len(prefix)
  /\ SubSeq(s, 1, Len(prefix)) = prefix

\* the substring test  sub in s
contains(s, sub) ==
  \E k \in 1..(Len(s) - Len(sub) + 1) : SubSeq(s, k, k + Len(sub) - 1) = sub

IsSpace(c) == c = " "

\* str.strip()
strip(s) ==
  LET keep == {k \in 1..Len(s) : ~IsSpace(s[k])}
  IN IF keep = {} THEN <<>>
     ELSE LET lo == CHOOSE k \in keep : \A m \in keep : k <= m
              hi == CHOOSE k \in keep : \A m \in keep : k >= m
          IN SubSeq(s, lo, hi)

IsDigit(c) == c \in DigitSet

\* str() of a non-negative integer
RECURSIVE str(_)
str(n) ==
  IF n < 10 THEN <<DigitChars[n + 1]>>
  ELSE str(n \div 10) \o <<DigitChars[(n % 10) + 1]>>

(***************************************************************************)
(* LinkFilter: extract_ip and quick_filter.                                *)
(***************************************************************************)
None == <<>>

S_scheme == <<"v","l","e","s","s",":","/","/">>
S_reality == <<"s","e","c","u","r","i","t","y","=","r","e","a","l","i","t","y">>
S_ws == <<"t","y","p","e","=","w","s">>

HostStop == {":", "/", "?", "#"}

\* re.match(r'^\d{1,3}(\.\d{1,3}){3}$', host)
IsDottedQuad(host) ==
  LET dots == {k \in 1..Len(host) : host[k] = "."}
      cuts == dots \cup {0, Len(host) + 1}
  IN /\ Cardinality(dots) = 3
     /\ \A k \in 1..Len(host) : k \notin dots => IsDigit(host[k])
     /\ \A a \in cuts : a <= Len(host) =>
          LET b == CHOOSE c \in cuts : c > a /\ \A d \in cuts : d > a => c <= d
          IN (b - a - 1) \in 1..3

\* extract_ip with re.IGNORECASE on its first pattern.
extract_ip_anycase(link) ==
  IF ~startswith(lower(link), S_scheme) THEN None
  ELSE
    LET ats == {k \in (Len(S_scheme) + 1)..Len(link) : link[k] = "@"}
    IN IF ats = {} THEN None
       ELSE
         LET at == CHOOSE k \in ats : \A m \in ats : k <= m
             stops == {k \in (at + 1)..Len(link) : link[k] \in HostStop}
             end == IF stops = {} THEN Len(link)
                    ELSE (CHOOSE k \in stops : \A m \in stops : k <= m) - 1
             host == SubSeq(link, at + 1, end)
         IN IF at = Len(S_scheme) + 1 THEN None
            ELSE IF host = <<>> THEN None
            ELSE IF IsDottedQuad(host) THEN host
            ELSE None

\* re.match(r'vless://[^@]+@([^:/?#]+)', link), then the dotted-quad test;
\* the result is the host text, or None.
extract_ip(link) ==
  IF ~startswith(link, S_scheme) THEN None
  ELSE
    LET ats == {k \in (Len(S_scheme) + 1)..Len(link) : link[k] = "@"}
    IN IF ats = {} THEN None
       ELSE
         LET at == CHOOSE k \in ats : \A m \in ats : k <= m
             stops == {k \in (at + 1)..Len(link) : link[k] \in HostStop}
             end == IF stops = {} THEN Len(link)
                    ELSE (CHOOSE k \in stops : \A m \in stops : k <= m) - 1
             host == SubSeq(link, at + 1, end)
         IN IF at = Len(S_scheme) + 1 THEN None
            ELSE IF host = <<>> THEN None
            ELSE IF IsDottedQuad(host) THEN host
            ELSE None

\* Stage 1 filter: must be vless + reality + not websocket
quick_filter(link) ==
  \E link_lower \in {lower(link)} :
    IF ~startswith(link_lower, S_scheme) THEN FALSE
    ELSE IF ~contains(link_lower, S_reality) THEN FALSE
    ELSE IF contains(link_lower, S_ws) THEN FALSE
    ELSE TRUE

(***************************************************************************)
(* ReferenceDatabaseManager: the file at GEOIP_DATABASE_PATH.              *)
(* A file is [exists, size in bytes, age in days since last modification]. *)
(***************************************************************************)
AbsentFile == [exists |-> FALSE, size |-> 0, age |-> 0]

\* The file is present with at least MIN_DB_SIZE bytes.
ValidFile(file) == file.exists /\ file.size >= MIN_DB_SIZE

DbSizes == {0, MIN_DB_SIZE - 1, MIN_DB_SIZE, MIN_DB_SIZE + 1}
DbAges == {0, MAX_AGE_DAYS, MAX_AGE_DAYS + 1}

\* The states the file at GEOIP_DATABASE_PATH can be found in.
FileStates ==
  {AbsentFile} \cup {[exists |-> TRUE, size |-> s, age |-> a] : s \in DbSizes, a \in DbAges}

\* The states of the file a run of main() is followed through: absent,
\* undersized, valid.
RunFileStates ==
  {AbsentFile,
   [exists |-> TRUE, size |-> MIN_DB_SIZE - 1, age |-> 0],
   [exists |-> TRUE, size |-> MIN_DB_SIZE, age |-> 0]}

\* What the download of GEOIP_URL can do: fail in requests.get or
\* raise_for_status, fail while the file is being written, or write a file.
DownloadOutcomes ==
  {[kind |-> k, size |-> 0] : k \in {"transport_fault", "io_fault"}}
    \cup {[kind |-> "written", size |-> s] : s \in {MIN_DB_SIZE - 1, MIN_DB_SIZE}}

\* The downloads that leave no file of at least MIN_DB_SIZE bytes.
FailingOutcomes ==
  {dl \in DownloadOutcomes : dl.kind # "written" \/ dl.size < MIN_DB_SIZE}

\* should_download_geoip with  return True  for a database that is old.
should_download_geoip_refresh(file) ==
  IF ~file.exists THEN TRUE
  ELSE IF file.size < MIN_DB_SIZE THEN TRUE
  ELSE IF file.age > MAX_AGE_DAYS THEN TRUE
  ELSE FALSE

\* Check if GeoLite2-ASN database needs to be downloaded or updated
should_download_geoip(file) ==
  IF ~file.exists THEN TRUE
  ELSE IF file.size < MIN_DB_SIZE THEN TRUE
  ELSE IF file.age > MAX_AGE_DAYS THEN FALSE
  ELSE FALSE

\* download_geoip_database without its first test: it downloads even when
\* should_download_geoip() is False.
download_geoip_database_always(file, dl) ==
  LET should == should_download_geoip(file)
  IN IF dl.kind = "written"
     THEN IF dl.size >= MIN_DB_SIZE
          THEN [ret |-> TRUE,
                file |-> [exists |-> TRUE, size |-> dl.size, age |-> 0],
                should |-> should, net |-> TRUE]
          ELSE [ret |-> FALSE, file |-> AbsentFile, should |-> should, net |-> TRUE]
     ELSE [ret |-> FALSE, file |-> AbsentFile, should |-> should, net |-> TRUE]

\* download_geoip_database without the unlink of the file found too small.
download_geoip_database_keep(file, dl) ==
  LET should == should_download_geoip(file)
  IN IF ~should
     THEN [ret |-> TRUE, file |-> file, should |-> should, net |-> FALSE]
     ELSE IF dl.kind = "written"
     THEN IF dl.size >= MIN_DB_SIZE
          THEN [ret |-> TRUE,
                file |-> [exists |-> TRUE, size |-> dl.size, age |-> 0],
                should |-> should, net |-> TRUE]
          ELSE [ret |-> FALSE,
                file |-> [exists |-> TRUE, size |-> dl.size, age |-> 0],
                should |-> should, net |-> TRUE]
     ELSE [ret |-> FALSE, file |-> AbsentFile, should |-> should, net |-> TRUE]

\* download_geoip_database without the size test after the download: a
\* written file is a success.
download_geoip_database_unvalidated(file, dl) ==
  LET should == should_download_geoip(file)
  IN IF ~should
     THEN [ret |-> TRUE, file |-> file, should |-> should, net |-> FALSE]
     ELSE IF dl.kind = "written"
     THEN [ret |-> TRUE,
           file |-> [exists |-> TRUE, size |-> dl.size, age |-> 0],
           should |-> should, net |-> TRUE]
     ELSE [ret |-> FALSE, file |-> AbsentFile, should |-> should, net |-> TRUE]

\* Download GeoLite2-ASN database if necessary.  The result holds the return
\* value, the file left behind, the value should_download_geoip returned and
\* whether GEOIP_URL was requested.  Every exception of the download is
\* caught (except Exception), so every path ends in a return.
download_geoip_database(file, dl) ==
  LET should == should_download_geoip(file)
  IN IF ~should
     THEN [ret |-> TRUE, file |-> file, should |-> should, net |-> FALSE]
     ELSE IF dl.kind = "written"
     THEN IF dl.size >= MIN_DB_SIZE
          THEN [ret |-> TRUE,
                file |-> [exists |-> TRUE, size |-> dl.size, age |-> 0],
                should |-> should, net |-> TRUE]
          ELSE [ret |-> FALSE, file |-> AbsentFile, should |-> should, net |-> TRUE]
     ELSE [ret |-> FALSE, file |-> AbsentFile, should |-> should, net |-> TRUE]

(***************************************************************************)
(* OriginClassifier: check_ip_with_geoasn and the cache ip_cache.          *)
(***************************************************************************)
OrgCloudflare == <<"C","L","O","U","D","F","L","A","R","E","N","E","T">>
OrgIsp == <<"E","x","a","m","p","l","e"," ","T","e","l","e","c","o","m">>

\* What reader.asn(ip) can do on the file that is there: raise
\* AddressNotFoundError, raise another exception (also from opening the
\* Reader), or return a response; org <<>> and asn 0 stand for None.
LookupResponses ==
  {[kind |-> k, org |-> <<>>, asn |-> 0] : k \in {"not_found", "fault"}}
    \cup {[kind |-> "found", org |-> OrgCloudflare, asn |-> 13335],
          [kind |-> "found", org |-> OrgIsp, asn |-> 64496],
          [kind |-> "found", org |-> <<>>, asn |-> 0]}

\* ip_cache = {ip: status} in place of ip_cache[ip] = status
CacheReset(cache, ip, status) == [x \in {ip} |-> status]

\* ip_cache[ip] = status
CachePut(cache, ip, status) ==
  [x \in (DOMAIN cache) \cup {ip} |-> IF x = ip THEN status ELSE cache[x]]

\* The try block without .lower() on the organization.
lookup_status_cased(resp) ==
  IF resp.kind = "not_found" THEN "unknown"
  ELSE IF resp.kind = "fault" THEN "error"
  ELSE
    LET org == resp.org
        asn_str == IF resp.asn = 0 THEN <<>> ELSE str(resp.asn)
        is_bad == \/ \E k \in DOMAIN BAD_ASN_KEYWORDS : contains(org, BAD_ASN_KEYWORDS[k])
                  \/ \E k \in DOMAIN BAD_ASN_KEYWORDS : contains(asn_str, BAD_ASN_KEYWORDS[k])
    IN IF is_bad THEN "bad" ELSE "clean"

\* The try block of check_ip_with_geoasn: the status the lookup yields.
lookup_status(resp) ==
  IF resp.kind = "not_found" THEN "unknown"
  ELSE IF resp.kind = "fault" THEN "error"
  ELSE
    LET org == lower(resp.org)
        asn_str == IF resp.asn = 0 THEN <<>> ELSE str(resp.asn)
        is_bad == \/ \E k \in DOMAIN BAD_ASN_KEYWORDS : contains(org, BAD_ASN_KEYWORDS[k])
                  \/ \E k \in DOMAIN BAD_ASN_KEYWORDS : contains(asn_str, BAD_ASN_KEYWORDS[k])
    IN IF is_bad THEN "bad" ELSE "clean"

\* lookup_status, tabulated over the responses.
LookupStatus == [r \in LookupResponses |-> lookup_status(r)]

\* Check if IP belongs to suspicious ASN/datacenter using GeoLite2-ASN.
\* The result holds the returned status, the cache and the file left behind,
\* and what the call did: hit (answered from ip_cache), acquired
\* (download_geoip_database was called), net (GEOIP_URL was requested),
\* read (the Reader was opened on the file).
\* check_ip_miss is the function after the cache test.
\* The function with  if should_download_geoip()  in place of
\* if not GEOIP_DATABASE_PATH.exists() : an undersized file is replaced too.
check_ip_miss_eager(ip, cache, file, auto, dl, resp) ==
  LET d == download_geoip_database(file, dl)
      needed == should_download_geoip(file)
  IN IF needed /\ auto /\ ~d.ret
     THEN [status |-> "error", cache |-> CachePut(cache, ip, "error"),
           file |-> d.file,
           hit |-> FALSE, acquired |-> TRUE, net |-> d.net, read |-> FALSE]
     ELSE IF needed /\ ~auto
     THEN [status |-> "no_db", cache |-> CachePut(cache, ip, "no_db"),
           file |-> file,
           hit |-> FALSE, acquired |-> FALSE, net |-> FALSE, read |-> FALSE]
     ELSE
       LET status == LookupStatus[resp]
       IN [status |-> status, cache |-> CachePut(cache, ip, status),
           file |-> IF needed THEN d.file ELSE file,
           hit |-> FALSE, acquired |-> needed,
           net |-> IF needed THEN d.net ELSE FALSE, read |-> TRUE]

\* The function without the test of AUTO_DOWNLOAD_GEOIP: an absent file is
\* always downloaded.
check_ip_miss_forced(ip, cache, file, auto, dl, resp) ==
  LET d == download_geoip_database(file, dl)
  IN IF ~file.exists /\ ~d.ret
     THEN [status |-> "error", cache |-> CachePut(cache, ip, "error"),
           file |-> d.file,
           hit |-> FALSE, acquired |-> TRUE, net |-> d.net, read |-> FALSE]
     ELSE
       LET status == LookupStatus[resp]
       IN [status |-> status, cache |-> CachePut(cache, ip, status),
           file |-> IF file.exists THEN file ELSE d.file,
           hit |-> FALSE, acquired |-> ~file.exists,
           net |-> IF file.exists THEN FALSE ELSE d.net, read |-> TRUE]

\* The function with  return "error"  but without  ip_cache[ip] = "error"
\* after the download failed.
check_ip_miss_forgetful(ip, cache, file, auto, dl, resp) ==
  LET d == download_geoip_database(file, dl)
  IN IF ~file.exists /\ auto /\ ~d.ret
     THEN [status |-> "error", cache |-> cache,
           file |-> d.file,
           hit |-> FALSE, acquired |-> TRUE, net |-> d.net, read |-> FALSE]
     ELSE IF ~file.exists /\ ~auto
     THEN [status |-> "no_db", cache |-> CachePut(cache, ip, "no_db"),
           file |-> file,
           hit |-> FALSE, acquired |-> FALSE, net |-> FALSE, read |-> FALSE]
     ELSE
       LET status == LookupStatus[resp]
       IN [status |-> status, cache |-> CachePut(cache, ip, status),
           file |-> IF file.exists THEN file ELSE d.file,
           hit |-> FALSE, acquired |-> ~file.exists,
           net |-> IF file.exists THEN FALSE ELSE d.net, read |-> TRUE]

check_ip_miss(ip, cache, file, auto, dl, resp) ==
  LET d == download_geoip_database(file, dl)
  IN IF ~file.exists /\ auto /\ ~d.ret
     THEN [status |-> "error", cache |-> CachePut(cache, ip, "error"),
           file |-> d.file,
           hit |-> FALSE, acquired |-> TRUE, net |-> d.net, read |-> FALSE]
     ELSE IF ~file.exists /\ ~auto
     THEN [status |-> "no_db", cache |-> CachePut(cache, ip, "no_db"),
           file |-> file,
           hit |-> FALSE, acquired |-> FALSE, net |-> FALSE, read |-> FALSE]
     ELSE
       LET status == LookupStatus[resp]
       IN [status |-> status, cache |-> CachePut(cache, ip, status),
           file |-> IF file.exists THEN file ELSE d.file,
           hit |-> FALSE, acquired |-> ~file.exists,
           net |-> IF file.exists THEN FALSE ELSE d.net, read |-> TRUE]

\* The function without the cache test at its start.
check_ip_uncached(ip, cache, file, auto, dl, resp) ==
  check_ip_miss(ip, cache, file, auto, dl, resp)

check_ip_with_geoasn(ip, cache, file, auto, dl, resp) ==
  IF ip \in DOMAIN cache
  THEN [status |-> cache[ip], cache |-> cache, file |-> file,
        hit |-> TRUE, acquired |-> FALSE, net |-> FALSE, read |-> FALSE]
  ELSE check_ip_miss(ip, cache, file, auto, dl, resp)

(***************************************************************************)
(* The input of main(): the lines of the downloaded list.                  *)
(*   Link1      vless://u@93.184.216.34:443?security=reality               *)
(*   Link2      vless://u@1.1.1.1:443?security=reality&type=ws             *)
(*   Link4      vless://u@8.8.8.8:443?security=reality                     *)
(*   Link5      vless://u@example.com:443?security=reality                 *)
(*   RawPadded  Link4 between two spaces                                   *)
(*   RawComment a comment line, "  # list"                                 *)
(*   Link6      VLESS://u@8.8.8.8:443?security=reality                     *)
(*   Link7      Vless://u@8.8.8.8:443?security=reality                     *)
(***************************************************************************)
Link1 == <<"v","l","e","s","s",":","/","/","u","@","9","3",".","1","8","4",".","2","1","6",".","3","4",":","4","4","3","?","s","e","c","u","r","i","t","y","=","r","e","a","l","i","t","y">>
Link2 == <<"v","l","e","s","s",":","/","/","u","@","1",".","1",".","1",".","1",":","4","4","3","?","s","e","c","u","r","i","t","y","=","r","e","a","l","i","t","y","&","t","y","p","e","=","w","s">>
Link4 == <<"v","l","e","s","s",":","/","/","u","@","8",".","8",".","8",".","8",":","4","4","3","?","s","e","c","u","r","i","t","y","=","r","e","a","l","i","t","y">>
Link5 == <<"v","l","e","s","s",":","/","/","u","@","e","x","a","m","p","l","e",".","c","o","m",":","4","4","3","?","s","e","c","u","r","i","t","y","=","r","e","a","l","i","t","y">>
Link6 == <<"V","L","E","S","S",":","/","/","u","@","8",".","8",".","8",".","8",":","4","4","3","?","s","e","c","u","r","i","t","y","=","r","e","a","l","i","t","y">>
Link7 == <<"V","l","e","s","s",":","/","/","u","@","8",".","8",".","8",".","8",":","4","4","3","?","s","e","c","u","r","i","t","y","=","r","e","a","l","i","t","y">>
RawPadded == <<" ","v","l","e","s","s",":","/","/","u","@","8",".","8",".","8",".","8",":","4","4","3","?","s","e","c","u","r","i","t","y","=","r","e","a","l","i","t","y"," ">>
RawComment == <<" "," ","#"," ","l","i","s","t">>

\* The lines r.text.splitlines() are drawn from.
RawPool == {Link1, Link2, RawPadded, Link5, RawComment}

\* The lines of a list whose Links have the address of Link4 and the scheme
\* in lower, upper and mixed case.
CasePool == {Link4, Link6, Link7}

\* The Link texts left of the lines of the pools, and the index of each.
LinkTexts == <<Link1, Link2, Link4, Link5, Link6, Link7>>
Text(id) == LinkTexts[id]
LinkId(text) == CHOOSE id \in DOMAIN LinkTexts : LinkTexts[id] = text

SeqsUpTo(S, n) == UNION {[1..k -> S] : k \in 0..n}

\* links = [l.strip() for l in r.text.splitlines()
\*          if l.strip() and not l.strip().startswith('#')]
parse_lines(lines) ==
  LET stripped == [k \in 1..Len(lines) |-> strip(lines[k])]
      Keep(l) == l # <<>> /\ ~startswith(l, <<"#">>)
      kept == SelectSeq(stripped, Keep)
  IN [k \in 1..Len(kept) |-> LinkId(kept[k])]

(***************************************************************************)
(* State.                                                                  *)
(***************************************************************************)
VARIABLES
  CHECK_IP_MODE,        \* configuration: "geo", "api" or "none"
  AUTO_DOWNLOAD_GEOIP,  \* configuration: BOOLEAN
  pc,                   \* position of main()
  links,                \* the Links main() processes
  i,                    \* index of the stage 1 loop into links
  j,                    \* index of the stage 2 loop into stage1_pass
  stage1_pass,          \* positions of links
  final_clean,          \* positions of links
  isp_problem,          \* positions of links
  rejected_stage1,      \* positions of links
  ip_cache,             \* address -> status
  db_file,              \* the file at GEOIP_DATABASE_PATH
  output,               \* FILES key -> the data save_file was called with
  last_call,            \* history: the last call of check_ip_with_geoasn
  ip_stats,             \* history: address -> calls, lookups, first status
  probe,                \* the last direct call of a function
  arg,                  \* the input of the direct calls of the pure functions
  acquire_calls,        \* history: calls of download_geoip_database
  net_gets,             \* history: requests of GEOIP_URL
  extract_calls,        \* history: calls of extract_ip
  sleep_calls           \* history: calls of time.sleep

vars == <<CHECK_IP_MODE, AUTO_DOWNLOAD_GEOIP, pc, links, i, j,
          stage1_pass, final_clean, isp_problem, rejected_stage1, ip_cache,
          db_file, output, last_call, ip_stats, probe, arg, acquire_calls,
          net_gets, extract_calls, sleep_calls>>

NoFile == <<"no file">>
NoDownload == [kind |-> "none", size |-> 0]
NoProbe == [op |-> "none", file |-> AbsentFile, ret |-> FALSE, net |-> FALSE,
            after |-> AbsentFile, dl |-> NoDownload]
EmptyCache == [x \in {} |-> "clean"]
NoArg == [link |-> 0, resp |-> [kind |-> "none", org |-> <<>>, asn |-> 0]]
NoCall == [n |-> 0, pos |-> 0, ip |-> None, status |-> "none", exists |-> FALSE,
           hit |-> FALSE, acquired |-> FALSE, net |-> FALSE, read |-> FALSE]

\* One more call of check_ip_with_geoasn(ip): it returned status and
\* looked ip up with the Reader or not.
StatsUp(stats, ip, status, read) ==
  LET old == IF ip \in DOMAIN stats THEN stats[ip]
             ELSE [calls |-> 0, reads |-> 0, first |-> status]
  IN [x \in (DOMAIN stats) \cup {ip} |->
        IF x = ip
        THEN [calls |-> old.calls + 1,
              reads |-> old.reads + (IF read THEN 1 ELSE 0),
              first |-> old.first]
        ELSE stats[x]]

\* The Links of a list of positions.
LinksOf(lst) == [k \in 1..Len(lst) |-> links[lst[k]]]

Init ==
  /\ CHECK_IP_MODE \in ModeOptions
  /\ AUTO_DOWNLOAD_GEOIP \in BOOLEAN
  /\ db_file \in RunFileStates
  /\ pc = "fetch"
  /\ links = <<>>
  /\ i = 1
  /\ j = 1
  /\ stage1_pass = <<>>
  /\ final_clean = <<>>
  /\ isp_problem = <<>>
  /\ rejected_stage1 = <<>>
  /\ ip_cache = EmptyCache
  /\ output = [k \in {FILES[n] : n \in DOMAIN FILES} |-> NoFile]
  /\ last_call = NoCall
  /\ ip_stats = EmptyCache
  /\ probe = NoProbe
  /\ arg = NoArg
  /\ acquire_calls = 0
  /\ net_gets = 0
  /\ extract_calls = 0
  /\ sleep_calls = 0

(***************************************************************************)
(* main()                                                                  *)
(***************************************************************************)
\* list.insert(0, x) in place of list.append(x)
ListPrepend(lst, x) == <<x>> \o lst

\* list.append
ListAppend(lst, x) == Append(lst, x)

\* The download of the list succeeds: links is built from the lines of
\* r.text, any list of at most MaxLines lines of the pool.
FetchLinksFrom(pool) ==
  /\ pc = "fetch"
  /\ \E lines \in SeqsUpTo(pool, MaxLines) : links' = parse_lines(lines)
  /\ pc' = "stage1"
  /\ UNCHANGED <<CHECK_IP_MODE, AUTO_DOWNLOAD_GEOIP, i, j,
                 stage1_pass, final_clean, isp_problem, rejected_stage1,
                 ip_cache, db_file, output, last_call, ip_stats, probe, acquire_calls,
                 net_gets, extract_calls, sleep_calls, arg>>

FetchLinks == FetchLinksFrom(RawPool)

\* The download of the list raises: main() returns.
FetchFails ==
  /\ pc = "fetch"
  /\ pc' = "aborted"
  /\ UNCHANGED <<CHECK_IP_MODE, AUTO_DOWNLOAD_GEOIP, links, i, j,
                 stage1_pass, final_clean, isp_problem, rejected_stage1,
                 ip_cache, db_file, output, last_call, ip_stats, probe, acquire_calls,
                 net_gets, extract_calls, sleep_calls, arg>>

\* The stage 1 loop with the two branches exchanged.
Stage1BodySwapped(passed, pass_list, rejected_list, pos) ==
  IF passed
  THEN [stage1_pass |-> pass_list, rejected_stage1 |-> ListAppend(rejected_list, pos)]
  ELSE [stage1_pass |-> ListAppend(pass_list, pos), rejected_stage1 |-> rejected_list]

\* One iteration of the stage 1 loop: the two lists after it.
Stage1Body(passed, pass_list, rejected_list, pos) ==
  IF passed
  THEN [stage1_pass |-> ListAppend(pass_list, pos), rejected_stage1 |-> rejected_list]
  ELSE [stage1_pass |-> pass_list, rejected_stage1 |-> ListAppend(rejected_list, pos)]

Stage1Step ==
  /\ pc = "stage1"
  /\ i <= Len(links)
  /\ \E r \in {Stage1Body(quick_filter(Text(links[i])), stage1_pass, rejected_stage1, i)} :
       /\ stage1_pass' = r.stage1_pass
       /\ rejected_stage1' = r.rejected_stage1
  /\ i' = i + 1
  /\ UNCHANGED <<CHECK_IP_MODE, AUTO_DOWNLOAD_GEOIP, pc, links, j,
                 final_clean, isp_problem, ip_cache, db_file, output, last_call, ip_stats,
                 probe, acquire_calls, net_gets, extract_calls, sleep_calls, arg>>

\* The test with == in place of != .
ip_check_inverted(mode) == mode # "geo"

\* The else branch of  if CHECK_IP_MODE != "geo"  is taken.
ip_check_enabled(mode) == mode = "geo"

\* IP checking disabled or unknown mode: only stage 1 applied.
SkipStage2 ==
  /\ pc = "stage1"
  /\ i > Len(links)
  /\ ~ip_check_enabled(CHECK_IP_MODE)
  /\ final_clean' = stage1_pass
  /\ pc' = "save"
  /\ UNCHANGED <<CHECK_IP_MODE, AUTO_DOWNLOAD_GEOIP, links, i, j,
                 stage1_pass, isp_problem, rejected_stage1, ip_cache, db_file,
                 output, last_call, ip_stats, probe, acquire_calls, net_gets,
                 extract_calls, sleep_calls, arg>>

\* Starting IP check: download_geoip_database() before the stage 2 loop,
\* which is left at once when stage1_pass is empty.  outcomes is what a
\* download of GEOIP_URL can do in the run.
StartStage2On(outcomes) ==
  /\ pc = "stage1"
  /\ i > Len(links)
  /\ ip_check_enabled(CHECK_IP_MODE)
  /\ \E dl \in outcomes :
       \E d \in {download_geoip_database(db_file, dl)} :
          /\ db_file' = d.file
          /\ net_gets' = net_gets + (IF d.net THEN 1 ELSE 0)
  /\ acquire_calls' = acquire_calls + 1
  /\ pc' = IF stage1_pass = <<>> THEN "save" ELSE "stage2"
  /\ UNCHANGED <<CHECK_IP_MODE, AUTO_DOWNLOAD_GEOIP, links, i, j,
                 stage1_pass, final_clean, isp_problem, rejected_stage1,
                 ip_cache, output, last_call, ip_stats, probe, extract_calls, sleep_calls, arg>>

StartStage2 == StartStage2On(DownloadOutcomes)

\* The routing with an else branch for "bad" only: other statuses are dropped.
Stage2BodyBadOnly(status, clean_list, problem_list, pos) ==
  IF status = "clean"
  THEN [final_clean |-> ListAppend(clean_list, pos), isp_problem |-> problem_list]
  ELSE IF status = "bad"
  THEN [final_clean |-> clean_list, isp_problem |-> ListAppend(problem_list, pos)]
  ELSE [final_clean |-> clean_list, isp_problem |-> problem_list]

\* The routing of a checked Link: the two lists after it.
Stage2Body(status, clean_list, problem_list, pos) ==
  IF status = "clean"
  THEN [final_clean |-> ListAppend(clean_list, pos), isp_problem |-> problem_list]
  ELSE [final_clean |-> clean_list, isp_problem |-> ListAppend(problem_list, pos)]

\* One iteration of the stage 2 loop; after the last one the loop is left.
\* outcomes is what a download of GEOIP_URL can do in the run.
Stage2StepOn(outcomes) ==
  /\ pc = "stage2"
  /\ j <= Len(stage1_pass)
  /\ \E pos \in {stage1_pass[j]} :
     \E ip \in {extract_ip(Text(links[pos]))} :
       IF ip = None
       THEN /\ isp_problem' = ListAppend(isp_problem, pos)
            /\ UNCHANGED <<final_clean, ip_cache, db_file, last_call, ip_stats,
                           acquire_calls, net_gets, sleep_calls>>
       ELSE \E dl \in outcomes, resp \in LookupResponses :
            \E c \in {check_ip_with_geoasn(ip, ip_cache, db_file,
                                            AUTO_DOWNLOAD_GEOIP, dl, resp)} :
            \E r \in {Stage2Body(c.status, final_clean, isp_problem, pos)} :
              /\ final_clean' = r.final_clean
              /\ isp_problem' = r.isp_problem
              /\ ip_cache' = c.cache
              /\ db_file' = c.file
              /\ last_call' =
                   [n |-> last_call.n + 1, pos |-> pos, ip |-> ip,
                    status |-> c.status, exists |-> db_file.exists,
                    hit |-> c.hit, acquired |-> c.acquired, net |-> c.net,
                    read |-> c.read]
              /\ ip_stats' = StatsUp(ip_stats, ip, c.status, c.read)
              /\ acquire_calls' = acquire_calls + (IF c.acquired THEN 1 ELSE 0)
              /\ net_gets' = net_gets + (IF c.net THEN 1 ELSE 0)
              /\ sleep_calls' = sleep_calls + (IF CHECK_IP_MODE = "api" THEN 1 ELSE 0)
  /\ extract_calls' = extract_calls + 1
  /\ j' = j + 1
  /\ pc' = IF j = Len(stage1_pass) THEN "save" ELSE "stage2"
  /\ UNCHANGED <<CHECK_IP_MODE, AUTO_DOWNLOAD_GEOIP, links, i,
                 stage1_pass, rejected_stage1, output, probe, arg>>

Stage2Step == Stage2StepOn(DownloadOutcomes)

\* save_file(key, data): data is handed to the file FILES[key]; a failure
\* of the write is printed and changes nothing else.
save_file(out, key, data) == [out EXCEPT ![key] = data]

\* The four save_file calls.
SaveAll ==
  /\ pc = "save"
  /\ output' =
       save_file(
         save_file(
           save_file(
             save_file(output, "stage1", LinksOf(stage1_pass)),
             "final", LinksOf(final_clean)),
           "isp_problem", LinksOf(isp_problem)),
         "rejected", LinksOf(rejected_stage1))
  /\ pc' = "done"
  /\ UNCHANGED <<CHECK_IP_MODE, AUTO_DOWNLOAD_GEOIP, links, i, j,
                 stage1_pass, final_clean, isp_problem, rejected_stage1,
                 ip_cache, db_file, last_call, ip_stats, probe, acquire_calls, net_gets,
                 extract_calls, sleep_calls, arg>>

\* The file at GEOIP_DATABASE_PATH is changed from outside while the stage 2
\* loop runs (Init covers every state of the file before the loop).
DbFileChanges ==
  /\ pc = "stage2"
  /\ db_file' \in RunFileStates \ {db_file}
  /\ UNCHANGED <<CHECK_IP_MODE, AUTO_DOWNLOAD_GEOIP, pc, links, i, j,
                 stage1_pass, final_clean, isp_problem, rejected_stage1,
                 ip_cache, output, last_call, ip_stats, probe, acquire_calls, net_gets,
                 extract_calls, sleep_calls, arg>>

Next ==
  \/ FetchLinks
  \/ FetchFails
  \/ Stage1Step
  \/ SkipStage2
  \/ StartStage2
  \/ Stage2Step
  \/ SaveAll
  \/ DbFileChanges

Spec == Init /\ [][Next]_vars

(***************************************************************************)
(* main() in "geo" mode when every download of GEOIP_URL fails, the file   *)
(* is absent or undersized at the start and nothing else writes it.        *)
(***************************************************************************)
OfflineInit ==
  /\ Init
  /\ CHECK_IP_MODE = "geo"
  /\ ~ValidFile(db_file)

StartStage2Offline == StartStage2On(FailingOutcomes)

Stage2StepOffline == Stage2StepOn(FailingOutcomes)

OfflineNext ==
  \/ FetchLinks
  \/ FetchFails
  \/ Stage1Step
  \/ StartStage2Offline
  \/ Stage2StepOffline
  \/ SaveAll

OfflineSpec == OfflineInit /\ [][OfflineNext]_vars

(***************************************************************************)
(* main() on lists of Links that differ in the case of the scheme only.    *)
(***************************************************************************)
FetchCaseLinks == FetchLinksFrom(CasePool)

CaseNext ==
  \/ FetchCaseLinks
  \/ FetchFails
  \/ Stage1Step
  \/ SkipStage2
  \/ StartStage2
  \/ Stage2Step
  \/ SaveAll
  \/ DbFileChanges

CaseSpec == Init /\ [][CaseNext]_vars

(***************************************************************************)
(* The database functions called on their own, on any state of the file.   *)
(***************************************************************************)
DbInit ==
  /\ CHECK_IP_MODE = "geo"
  /\ AUTO_DOWNLOAD_GEOIP = TRUE
  /\ db_file \in FileStates
  /\ pc = "probe"
  /\ links = <<>>
  /\ i = 1
  /\ j = 1
  /\ stage1_pass = <<>>
  /\ final_clean = <<>>
  /\ isp_problem = <<>>
  /\ rejected_stage1 = <<>>
  /\ ip_cache = EmptyCache
  /\ output = [k \in {FILES[n] : n \in DOMAIN FILES} |-> NoFile]
  /\ last_call = NoCall
  /\ ip_stats = EmptyCache
  /\ probe = NoProbe
  /\ arg = NoArg
  /\ acquire_calls = 0
  /\ net_gets = 0
  /\ extract_calls = 0
  /\ sleep_calls = 0

\* should_download_geoip() is called; probe holds the file it was called
\* on, its value, and the file after it.
ProbeShouldDownload ==
  /\ pc = "probe"
  /\ probe' = [op |-> "should_download_geoip", file |-> db_file,
               ret |-> should_download_geoip(db_file), net |-> FALSE,
               after |-> db_file, dl |-> NoDownload]
  /\ UNCHANGED <<CHECK_IP_MODE, AUTO_DOWNLOAD_GEOIP, pc, links, i, j,
                 stage1_pass, final_clean, isp_problem, rejected_stage1,
                 ip_cache, db_file, output, last_call, ip_stats, acquire_calls, net_gets,
                 extract_calls, sleep_calls, arg>>

\* download_geoip_database() is called, at most MaxProbes times; probe holds
\* the file it was called on, what the download did (when one was made),
\* its value and the file after it.
ProbeDownload ==
  /\ pc = "probe"
  /\ acquire_calls < MaxProbes
  /\ \E dl \in DownloadOutcomes :
     \E d \in {download_geoip_database(db_file, dl)} :
       /\ db_file' = d.file
       /\ probe' = [op |-> "download_geoip_database", file |-> db_file,
                    ret |-> d.ret, net |-> d.net,
                    after |-> d.file, dl |-> IF d.net THEN dl ELSE NoDownload]
       /\ net_gets' = net_gets + (IF d.net THEN 1 ELSE 0)
  /\ acquire_calls' = acquire_calls + 1
  /\ UNCHANGED <<CHECK_IP_MODE, AUTO_DOWNLOAD_GEOIP, pc, links, i, j,
                 stage1_pass, final_clean, isp_problem, rejected_stage1,
                 ip_cache, output, last_call, ip_stats,
                 extract_calls, sleep_calls, arg>>

\* The file at GEOIP_DATABASE_PATH is changed from outside between two calls.
ProbeFileChanges ==
  /\ pc = "probe"
  /\ db_file' \in FileStates \ {db_file}
  /\ UNCHANGED <<CHECK_IP_MODE, AUTO_DOWNLOAD_GEOIP, pc, links, i, j,
                 stage1_pass, final_clean, isp_problem, rejected_stage1,
                 ip_cache, output, last_call, ip_stats, probe, acquire_calls, net_gets,
                 extract_calls, sleep_calls, arg>>

DbNext ==
  \/ ProbeShouldDownload
  \/ ProbeDownload
  \/ ProbeFileChanges

DbSpec == DbInit /\ [][DbNext]_vars

(***************************************************************************)
(* quick_filter and the lookup of check_ip_with_geoasn called on their own. *)
(* The Link texts are  scheme  u@8.8.8.8:443  query  fragment  with        *)
(*   scheme    vless://  VLESS://  Vless://  vmess://                      *)
(*   query     ?security=reality   ?security=none                          *)
(*             ?security=reality&type=ws   ?type=tcp&security=reality      *)
(*             ?security=reality&headerType=ws                             *)
(*   fragment  (none)  #security=reality  #type=ws                         *)
(* The responses of reader.asn(ip) have an organization of UnitOrgs and a  *)
(* number of UnitAsns; <<>> and 0 stand for None.                          *)
(***************************************************************************)
UnitSchemes ==
  << <<"v","l","e","s","s",":","/","/">>,
     <<"V","L","E","S","S",":","/","/">>,
     <<"V","l","e","s","s",":","/","/">>,
     <<"v","m","e","s","s",":","/","/">> >>
UnitAuthority == <<"u","@","8",".","8",".","8",".","8",":","4","4","3">>
UnitQueries ==
  << <<"?","s","e","c","u","r","i","t","y","=","r","e","a","l","i","t","y">>,
     <<"?","s","e","c","u","r","i","t","y","=","n","o","n","e">>,
     <<"?","s","e","c","u","r","i","t","y","=","r","e","a","l","i","t","y","&","t","y","p","e","=","w","s">>,
     <<"?","t","y","p","e","=","t","c","p","&","s","e","c","u","r","i","t","y","=","r","e","a","l","i","t","y">>,
     <<"?","s","e","c","u","r","i","t","y","=","r","e","a","l","i","t","y","&","h","e","a","d","e","r","T","y","p","e","=","w","s">> >>
UnitFragments ==
  << <<>>,
     <<"#","s","e","c","u","r","i","t","y","=","r","e","a","l","i","t","y">>,
     <<"#","t","y","p","e","=","w","s">> >>

UnitLinks ==
  [k \in 1..(Len(UnitSchemes) * Len(UnitQueries) * Len(UnitFragments)) |->
     UnitSchemes[((k - 1) % Len(UnitSchemes)) + 1]
       \o UnitAuthority
       \o UnitQueries[(((k - 1) \div Len(UnitSchemes)) % Len(UnitQueries)) + 1]
       \o UnitFragments[((k - 1) \div (Len(UnitSchemes) * Len(UnitQueries))) + 1]]

UnitOrgs ==
  { <<>>,
    OrgCloudflare,
    OrgIsp,
    <<"H","e","t","z","n","e","r"," ","O","n","l","i","n","e"," ","G","m","b","H">>,
    <<"O","V","H"," ","S","A","S">>,
    <<"G","o","o","g","l","e"," ","C","l","o","u","d"," ","P","l","a","t","f","o","r","m">>,
    <<"G","o","o","g","l","e"," ","L","L","C">> }
UnitAsns == {0, 13335, 64496, 24940}

UnitResponses ==
  {[kind |-> k, org |-> <<>>, asn |-> 0] : k \in {"not_found", "fault"}}
    \cup {[kind |-> "found", org |-> o, asn |-> a] : o \in UnitOrgs, a \in UnitAsns}

UnitInit ==
  /\ CHECK_IP_MODE = "geo"
  /\ AUTO_DOWNLOAD_GEOIP = TRUE
  /\ db_file = AbsentFile
  /\ pc = "unit"
  /\ links = <<>>
  /\ i = 1
  /\ j = 1
  /\ stage1_pass = <<>>
  /\ final_clean = <<>>
  /\ isp_problem = <<>>
  /\ rejected_stage1 = <<>>
  /\ ip_cache = EmptyCache
  /\ output = [k \in {FILES[n] : n \in DOMAIN FILES} |-> NoFile]
  /\ last_call = NoCall
  /\ ip_stats = EmptyCache
  /\ probe = NoProbe
  /\ arg \in [link : DOMAIN UnitLinks, resp : UnitResponses]
  /\ acquire_calls = 0
  /\ net_gets = 0
  /\ extract_calls = 0
  /\ sleep_calls = 0

\* quick_filter(link) is called on the Link text of arg.
CallQuickFilter ==
  /\ pc = "unit"
  /\ probe' = [op |-> "quick_filter", ret |-> quick_filter(UnitLinks[arg.link])]
  /\ UNCHANGED <<CHECK_IP_MODE, AUTO_DOWNLOAD_GEOIP, pc, links, i, j,
                 stage1_pass, final_clean, isp_problem, rejected_stage1,
                 ip_cache, db_file, output, last_call, ip_stats, acquire_calls,
                 net_gets, extract_calls, sleep_calls, arg>>

\* The try block of check_ip_with_geoasn runs with the response of arg.
CallLookup ==
  /\ pc = "unit"
  /\ probe' = [op |-> "lookup_status", ret |-> lookup_status(arg.resp)]
  /\ UNCHANGED <<CHECK_IP_MODE, AUTO_DOWNLOAD_GEOIP, pc, links, i, j,
                 stage1_pass, final_clean, isp_problem, rejected_stage1,
                 ip_cache, db_file, output, last_call, ip_stats, acquire_calls,
                 net_gets, extract_calls, sleep_calls, arg>>

UnitNext ==
  \/ CallQuickFilter
  \/ CallLookup

UnitSpec == UnitInit /\ [][UnitNext]_vars

(***************************************************************************)
(* Properties.                                                             *)
(***************************************************************************)
\* The four lists have their final value.
PartitionsFinal == pc \in {"save", "done"}

\* The number of times position p occurs in a list.
Count(lst, p) == Cardinality({k \in DOMAIN lst : lst[k] = p})

IsIncreasing(lst) == \A a, b \in DOMAIN lst : a < b => lst[a] < lst[b]

\* C1: when main() has built its lists, final_clean, isp_problem and
\* rejected_stage1 together hold as many Links as the input, and so do
\* stage1_pass and rejected_stage1 together; the saved data has these sizes.
C1_PartitionCompleteness ==
  /\ PartitionsFinal =>
       /\ Len(final_clean) + Len(isp_problem) + Len(rejected_stage1) = Len(links)
       /\ Len(stage1_pass) + Len(rejected_stage1) = Len(links)
  /\ pc = "done" =>
       /\ Len(output["final"]) + Len(output["isp_problem"]) + Len(output["rejected"])
            = Len(links)
       /\ Len(output["stage1"]) + Len(output["rejected"]) = Len(links)

\* A run with origin checking that ends with a Link in each of the three
\* lists, one of them after a check that ended in error.
C1_Witness ==
  /\ pc = "done"
  /\ CHECK_IP_MODE = "geo"
  /\ final_clean # <<>>
  /\ isp_problem # <<>>
  /\ rejected_stage1 # <<>>
  /\ \E ip \in DOMAIN ip_cache : ip_cache[ip] = "error"

\* C2: every input position ends in exactly one of final_clean, isp_problem
\* and rejected_stage1, and is in stage1_pass exactly when quick_filter
\* accepts its Link.
C2_ExactlyOnePartition ==
  PartitionsFinal =>
    \A p \in 1..Len(links) :
      /\ Count(final_clean, p) + Count(isp_problem, p) + Count(rejected_stage1, p) = 1
      /\ Count(stage1_pass, p) = (IF quick_filter(Text(links[p])) THEN 1 ELSE 0)

\* A finished run whose input has a Link that passed stage 1 and one that
\* did not.
C2_Witness ==
  /\ pc = "done"
  /\ stage1_pass # <<>>
  /\ rejected_stage1 # <<>>
  /\ isp_problem # <<>>

\* C4: in every mode each of the four lists holds input positions in
\* increasing order, and what is saved is the Links at these positions.
C4_OrderPreserved ==
  /\ IsIncreasing(stage1_pass)
  /\ IsIncreasing(final_clean)
  /\ IsIncreasing(isp_problem)
  /\ IsIncreasing(rejected_stage1)
  /\ pc = "done" =>
       /\ output["stage1"] = LinksOf(stage1_pass)
       /\ output["final"] = LinksOf(final_clean)
       /\ output["isp_problem"] = LinksOf(isp_problem)
       /\ output["rejected"] = LinksOf(rejected_stage1)

\* A finished run with two Links in one of the lists filled by stage 2.
C4_Witness ==
  /\ pc = "done"
  /\ CHECK_IP_MODE = "geo"
  /\ \/ Len(final_clean) >= 2
     \/ Len(isp_problem) >= 2

\* Position p is in the list.
InList(lst, p) == \E k \in DOMAIN lst : lst[k] = p

\* The status check_ip_with_geoasn returned for the address of position p.
VerdictOf(p) ==
  LET ip == extract_ip(Text(links[p]))
  IN IF ip # None /\ ip \in DOMAIN ip_cache THEN ip_cache[ip] ELSE "none"

\* C3: in the modes that check the origin ("geo" and "api") a position is in
\* final_clean only if check_ip_with_geoasn returned "clean" for its
\* address, and a position whose check returned another status is in
\* isp_problem and not in final_clean.
C3_FailClosed ==
  CHECK_IP_MODE \in {"geo", "api"} =>
    /\ \A k \in DOMAIN final_clean : VerdictOf(final_clean[k]) = "clean"
    /\ (last_call.n > 0 /\ last_call.status # "clean") =>
         /\ InList(isp_problem, last_call.pos)
         /\ ~InList(final_clean, last_call.pos)

\* C5: a second call of check_ip_with_geoasn for an address returns the
\* status of the first, from ip_cache, without download and without
\* lookup; no address is looked up with the Reader more than once.
C5_CachedSecondCall ==
  /\ \A ip \in DOMAIN ip_stats : ip_stats[ip].reads <= 1
  /\ last_call.n > 0 =>
       /\ last_call.status = ip_stats[last_call.ip].first
       /\ ip_stats[last_call.ip].calls >= 2 =>
            /\ last_call.hit
            /\ ~last_call.read
            /\ ~last_call.acquired
            /\ ~last_call.net

\* An address was looked up with the Reader and then checked again.
C5_Witness ==
  /\ last_call.n >= 2
  /\ ip_stats[last_call.ip].calls >= 2
  /\ ip_stats[last_call.ip].reads = 1

\* C6: an entry of ip_cache is never changed or removed, whatever happens
\* to the database file, and a call for an address that has an entry
\* returns the entry.
C6_CacheWriteOnce ==
  [][/\ \A ip \in DOMAIN ip_cache :
          ip \in DOMAIN ip_cache' /\ ip_cache'[ip] = ip_cache[ip]
     /\ (last_call'.n = last_call.n + 1 /\ last_call'.ip \in DOMAIN ip_cache) =>
          last_call'.status = ip_cache[last_call'.ip]]_vars

\* A call answered from ip_cache after the database file appeared or
\* disappeared since the entry was made.
C6_Witness ==
  /\ last_call.hit
  /\ \/ last_call.status = "no_db" /\ last_call.exists
     \/ last_call.status \in {"clean", "bad", "unknown"} /\ ~last_call.exists

\* C7: with CHECK_IP_MODE None final_clean is stage1_pass, isp_problem is
\* empty, and nothing of stage 2 happens: no extract_ip, no
\* check_ip_with_geoasn, no entry of ip_cache, no download_geoip_database.
C7_OffSkipsStage2 ==
  CHECK_IP_MODE = "none" =>
    /\ PartitionsFinal => final_clean = stage1_pass
    /\ isp_problem = <<>>
    /\ extract_calls = 0
    /\ last_call = NoCall
    /\ ip_stats = EmptyCache
    /\ ip_cache = EmptyCache
    /\ acquire_calls = 0
    /\ net_gets = 0

\* A finished run without origin check whose input had a Link with an
\* address that passed stage 1 and a Link that did not pass.
C7_Witness ==
  /\ CHECK_IP_MODE = "none"
  /\ pc = "done"
  /\ rejected_stage1 # <<>>
  /\ \E k \in DOMAIN final_clean : extract_ip(Text(links[final_clean[k]])) # None

\* Stage 2 was applied to every position of stage1_pass.
Stage2Applied ==
  \A k \in DOMAIN stage1_pass :
    LET p == stage1_pass[k]
        ip == extract_ip(Text(links[p]))
    IN IF ip = None
       THEN InList(isp_problem, p) /\ ~InList(final_clean, p)
       ELSE /\ ip \in DOMAIN ip_cache
            /\ InList(final_clean, p) <=> ip_cache[ip] = "clean"
            /\ InList(isp_problem, p) <=> ip_cache[ip] # "clean"

\* C8: a run in "api" mode applies stage 2 as a run in "geo" mode does, and
\* sleeps after each check.
C8_ApiAsGeo ==
  (CHECK_IP_MODE = "api" /\ PartitionsFinal) =>
    /\ Stage2Applied
    /\ sleep_calls = last_call.n

\* C9 as claimed: in "geo" mode no call of check_ip_with_geoasn calls
\* download_geoip_database.
C9_NoAcquisitionAfterFirstCheck ==
  (CHECK_IP_MODE = "geo" /\ last_call.n > 0) =>
    /\ ~last_call.acquired
    /\ ~last_call.net

\* C9 as amended: in "geo" mode download_geoip_database has been called
\* before the first check_ip_with_geoasn; a call of check_ip_with_geoasn
\* calls it only for an address without entry in ip_cache, when the file is
\* absent and AUTO_DOWNLOAD_GEOIP is set, before its lookup, and when the
\* download fails it returns "error" without lookup.
C9_AcquisitionOnlyOnMissWithoutFile ==
  CHECK_IP_MODE = "geo" =>
    /\ pc \in {"stage2", "save", "done"} => acquire_calls >= 1
    /\ last_call.n > 0 =>
         /\ acquire_calls >= 1 + (IF last_call.acquired THEN 1 ELSE 0)
         /\ last_call.acquired =>
              /\ ~last_call.hit
              /\ ip_stats[last_call.ip].calls = 1
              /\ ~last_call.exists
              /\ AUTO_DOWNLOAD_GEOIP
         /\ last_call.net => last_call.acquired
         /\ (last_call.acquired /\ ~last_call.read) => last_call.status = "error"

\* A check after the first one that downloaded the database and looked the
\* address up.
C9_Witness ==
  /\ CHECK_IP_MODE = "geo"
  /\ last_call.n >= 2
  /\ last_call.acquired
  /\ last_call.read

\* C10: should_download_geoip returns True exactly when the file is absent
\* or smaller than MIN_DB_SIZE; for a file of at least MIN_DB_SIZE it
\* returns False whatever the age.
C10_NeedsAcquisition ==
  probe.op = "should_download_geoip" =>
    /\ probe.ret <=> (~probe.file.exists \/ probe.file.size < MIN_DB_SIZE)
    /\ (probe.file.exists /\ probe.file.size >= MIN_DB_SIZE) => ~probe.ret

\* should_download_geoip was called on a file of valid size older than
\* MAX_AGE_DAYS.
C10_Witness ==
  /\ probe.op = "should_download_geoip"
  /\ probe.file.exists
  /\ probe.file.size >= MIN_DB_SIZE
  /\ probe.file.age > MAX_AGE_DAYS
  /\ ~probe.ret

\* The download did not leave a file of at least MIN_DB_SIZE bytes.
FailedDownload(dl) == dl.kind # "written" \/ dl.size < MIN_DB_SIZE

\* C11: every call of download_geoip_database on a file that is present
\* with at least MIN_DB_SIZE bytes, fresh or old, returns True, does not
\* request GEOIP_URL and leaves the file as it is, however many calls were
\* made before.
C11_AcquireIdempotent ==
  [][(acquire_calls' = acquire_calls + 1 /\ ValidFile(db_file)) =>
       /\ probe'.op = "download_geoip_database"
       /\ probe'.ret
       /\ ~probe'.net
       /\ net_gets' = net_gets
       /\ db_file' = db_file]_vars

\* download_geoip_database was called a second time or later, on a file of
\* valid size older than MAX_AGE_DAYS, and GEOIP_URL was never requested.
C11_Witness ==
  /\ acquire_calls >= 2
  /\ net_gets = 0
  /\ probe.op = "download_geoip_database"
  /\ ValidFile(probe.file)
  /\ probe.file.age > MAX_AGE_DAYS
  /\ probe.ret
  /\ db_file = probe.file

\* C12: a call of download_geoip_database on an absent or undersized file
\* requests GEOIP_URL, and when the download fails (in the request, while
\* the file is written, or by a file smaller than MIN_DB_SIZE) the call
\* returns False and the file does not exist after it.
C12_FailedAcquireLeavesNoFile ==
  (probe.op = "download_geoip_database" /\ ~ValidFile(probe.file)) =>
    /\ probe.net
    /\ FailedDownload(probe.dl) =>
         /\ ~probe.ret
         /\ ~probe.after.exists

\* download_geoip_database was called on an undersized file and the
\* download wrote a file that is too small again.
C12_Witness ==
  /\ probe.op = "download_geoip_database"
  /\ probe.file.exists
  /\ probe.file.size < MIN_DB_SIZE
  /\ probe.dl.kind = "written"
  /\ probe.dl.size < MIN_DB_SIZE
  /\ ~probe.ret
  /\ ~probe.after.exists

\* C13: should_download_geoip returns True on a file smaller than
\* MIN_DB_SIZE, and whenever download_geoip_database returns True the file
\* is present with at least MIN_DB_SIZE bytes.
C13_CorruptionRecovery ==
  /\ (probe.op = "should_download_geoip" /\ probe.file.exists
        /\ probe.file.size < MIN_DB_SIZE) => probe.ret
  /\ (probe.op = "download_geoip_database" /\ probe.ret) => ValidFile(probe.after)

\* download_geoip_database was called on an undersized file and returned
\* True after a download.
C13_Witness ==
  /\ probe.op = "download_geoip_database"
  /\ probe.file.exists
  /\ probe.file.size < MIN_DB_SIZE
  /\ probe.ret
  /\ probe.net
  /\ ValidFile(probe.after)

\* The statuses a lookup with the Reader ends in.
LookupStatuses == {"clean", "bad", "unknown", "error"}

\* C14: with AUTO_DOWNLOAD_GEOIP False, a call of check_ip_with_geoasn for
\* an address without entry that finds the file absent returns "no_db"
\* without download and without lookup; a call for an address without entry
\* that finds the file present looks the address up; and a later call for an
\* address whose first status was "no_db" returns "no_db" again, without
\* lookup, also when the file is present by then.
C14_NoDbWithoutAutoAcquire ==
  (~AUTO_DOWNLOAD_GEOIP /\ last_call.n > 0) =>
    /\ (~last_call.hit /\ ~last_call.exists) =>
         /\ last_call.status = "no_db"
         /\ ~last_call.acquired
         /\ ~last_call.net
         /\ ~last_call.read
         /\ last_call.ip \in DOMAIN ip_cache
         /\ ip_cache[last_call.ip] = "no_db"
    /\ (~last_call.hit /\ last_call.exists) =>
         /\ last_call.read
         /\ ~last_call.acquired
         /\ last_call.status \in LookupStatuses
    /\ ip_stats[last_call.ip].first = "no_db" =>
         /\ last_call.status = "no_db"
         /\ ~last_call.read
         /\ ~last_call.acquired

\* An address got "no_db", the file appeared, another address was looked
\* up, and the first address was checked again with the file present.
C14_Witness ==
  /\ ~AUTO_DOWNLOAD_GEOIP
  /\ last_call.n = 3
  /\ last_call.hit
  /\ last_call.exists
  /\ last_call.status = "no_db"
  /\ \E ip \in DOMAIN ip_stats :
       /\ ip # last_call.ip
       /\ ip_stats[ip].reads = 1
       /\ ip_stats[ip].first \in LookupStatuses

\* A step of main() after the list of Links was obtained.
MainStep == Stage1Step \/ SkipStage2 \/ StartStage2 \/ Stage2Step \/ SaveAll

\* The four lists as they were handed to save_file.
AllSaved ==
  /\ output["stage1"] = LinksOf(stage1_pass)
  /\ output["final"] = LinksOf(final_clean)
  /\ output["isp_problem"] = LinksOf(isp_problem)
  /\ output["rejected"] = LinksOf(rejected_stage1)

\* C15: in the modes that check the origin ("geo" and "api"), after the
\* list was obtained main() can always take its next step, whatever the
\* downloads, the file and the lookups did; a check that did not return
\* "clean" puts its Link in isp_problem; when the lists are final stage 2
\* was applied to every position of stage1_pass, and at the end the four
\* lists were handed to save_file.
C15_NoFatalStage2Fault ==
  CHECK_IP_MODE \in {"geo", "api"} =>
    /\ pc \in {"stage1", "stage2", "save"} => ENABLED MainStep
    /\ (last_call.n > 0 /\ last_call.status # "clean") =>
         InList(isp_problem, last_call.pos)
    /\ PartitionsFinal => Stage2Applied
    /\ pc = "done" => AllSaved

\* The Link at position p of links has no address extract_ip returns.
NoAddress(p) == extract_ip(Text(links[p])) = None

\* C18: in the modes that check the origin ("geo" and "api") every position
\* of stage1_pass whose Link has no address is in isp_problem and not in
\* final_clean when the lists are final; and the iteration of the stage 2
\* loop on such a Link appends it to isp_problem and calls neither
\* check_ip_with_geoasn nor download_geoip_database: ip_cache, the file and
\* the counts of calls, downloads and lookups stay as they are.
C18_NoAddressNoLookup ==
  /\ [](CHECK_IP_MODE \in {"geo", "api"} /\ PartitionsFinal =>
          \A k \in DOMAIN stage1_pass :
             NoAddress(stage1_pass[k]) =>
               /\ InList(isp_problem, stage1_pass[k])
               /\ ~InList(final_clean, stage1_pass[k]))
  /\ [][(pc = "stage2" /\ j' = j + 1 /\ NoAddress(stage1_pass[j])) =>
          /\ isp_problem' = ListAppend(isp_problem, stage1_pass[j])
          /\ final_clean' = final_clean
          /\ ip_cache' = ip_cache
          /\ db_file' = db_file
          /\ last_call' = last_call
          /\ ip_stats' = ip_stats
          /\ acquire_calls' = acquire_calls
          /\ net_gets' = net_gets]_vars

\* The first index of s that holds a character of the set, or Len(s) + 1.
FirstOf(s, chars) ==
  LET at == {k \in 1..Len(s) : s[k] \in chars}
  IN IF at = {} THEN Len(s) + 1 ELSE CHOOSE k \in at : \A m \in at : k <= m

\* The scheme token of a Link: the text before the first ":".
SchemeToken(link) == SubSeq(link, 1, FirstOf(link, {":"}) - 1)

\* The query of a Link: the text after the first "?" and before the
\* fragment, which starts at the first "#".
QueryText(link) ==
  LET body == SubSeq(link, 1, FirstOf(link, {"#"}) - 1)
  IN SubSeq(body, FirstOf(body, {"?"}) + 1, Len(body))

\* The query-parameter set of a Link: the pieces of the query between "&".
QueryParams(link) ==
  LET q == QueryText(link)
      cuts == {0, Len(q) + 1} \cup {k \in 1..Len(q) : q[k] = "&"}
  IN {SubSeq(q, a + 1, (CHOOSE b \in cuts : b > a /\ \A c \in cuts : c > a => b <= c) - 1) :
        a \in cuts \ {Len(q) + 1}}

\* Eligibility as the claim states it, on scheme token and parameter set,
\* compared without regard to case.
stage1_eligible(link) ==
  /\ lower(SchemeToken(link)) = <<"v","l","e","s","s">>
  /\ \E p \in QueryParams(link) : lower(p) = S_reality
  /\ ~\E p \in QueryParams(link) : lower(p) = S_ws

\* C16: quick_filter(link) is True exactly when the scheme token of the
\* Link is vless in any case, its query-parameter set holds
\* security=reality and its query-parameter set does not hold type=ws.
C16_Stage1EligibleByParameters ==
  probe.op = "quick_filter" =>
    (probe.ret <=> stage1_eligible(UnitLinks[arg.link]))

\* The organization or the number of the response holds a keyword of
\* BAD_ASN_KEYWORDS, compared without regard to case.
DenyListed(resp) ==
  LET number == IF resp.asn = 0 THEN <<>> ELSE str(resp.asn)
  IN \E k \in DOMAIN BAD_ASN_KEYWORDS :
       \/ contains(lower(resp.org), lower(BAD_ASN_KEYWORDS[k]))
       \/ contains(lower(number), lower(BAD_ASN_KEYWORDS[k]))

\* C17: when reader.asn(ip) returns a response, the status is "bad" if the
\* organization or the number holds a keyword of BAD_ASN_KEYWORDS as a
\* substring, compared without regard to case, and "clean" otherwise.
C17_BadIffDenyListed ==
  (probe.op = "lookup_status" /\ arg.resp.kind = "found") =>
    probe.ret = (IF DenyListed(arg.resp) THEN "bad" ELSE "clean")

\* The lookup ran on a response whose organization holds a keyword in
\* upper or mixed case, and gave "bad".
C17_Witness ==
  /\ probe.op = "lookup_status"
  /\ arg.resp.kind = "found"
  /\ arg.resp.org # lower(arg.resp.org)
  /\ DenyListed(arg.resp)
  /\ probe.ret = "bad"

\* The addresses extract_ip returns for the Links of stage1_pass.
ExtractedAddresses ==
  {extract_ip(Text(links[stage1_pass[k]])) : k \in DOMAIN stage1_pass} \ {None}

\* C19: in a run of the origin check in which every download fails and the
\* file is absent, with AUTO_DOWNLOAD_GEOIP set: a call of
\* check_ip_with_geoasn for an address without entry calls
\* download_geoip_database once, stores and returns "error" and looks
\* nothing up; a call for an address with entry downloads nothing;
\* download_geoip_database was called once before the loop and once for
\* each address in ip_cache, which is at most once for each address
\* extracted; and every Link of stage1_pass with an address ends in
\* isp_problem.
C19_AcquisitionPerMiss ==
  AUTO_DOWNLOAD_GEOIP =>
    /\ last_call.n > 0 =>
         /\ ~last_call.hit =>
              /\ ~last_call.exists
              /\ last_call.acquired
              /\ last_call.net
              /\ ~last_call.read
              /\ last_call.status = "error"
              /\ last_call.ip \in DOMAIN ip_cache
              /\ ip_cache[last_call.ip] = "error"
         /\ last_call.hit => ~last_call.acquired /\ ~last_call.read
    /\ pc \in {"stage2", "save", "done"} =>
         /\ acquire_calls = 1 + Cardinality(DOMAIN ip_cache)
         /\ acquire_calls <= 1 + Cardinality(ExtractedAddresses)
         /\ net_gets = acquire_calls
    /\ PartitionsFinal =>
         \A k \in DOMAIN stage1_pass :
            ~NoAddress(stage1_pass[k]) =>
              /\ InList(isp_problem, stage1_pass[k])
              /\ ~InList(final_clean, stage1_pass[k])

\* A finished run with two addresses, one of them in two Links: three
\* calls of download_geoip_database, the last check answered from ip_cache.
C19_Witness ==
  /\ AUTO_DOWNLOAD_GEOIP
  /\ pc = "done"
  /\ Cardinality(ExtractedAddresses) = 2
  /\ acquire_calls = 3
  /\ last_call.n = 3
  /\ last_call.hit
  /\ Len(isp_problem) = 3

\* The address extract_ip returns for the Link with its first characters
\* replaced by the lower-case scheme: the bare IPv4 host token, or None.
AddressIfLower(link) ==
  extract_ip(S_scheme \o SubSeq(link, Len(S_scheme) + 1, Len(link)))

\* The Link at position p passes quick_filter, has a bare IPv4 host token
\* and a scheme that is not all lower case.
OtherCase(p) ==
  /\ quick_filter(Text(links[p]))
  /\ ~startswith(Text(links[p]), S_scheme)
  /\ AddressIfLower(Text(links[p])) # None

\* The positions of stage1_pass whose Link extract_ip returns an address for.
WithAddress == {k \in DOMAIN stage1_pass : ~NoAddress(stage1_pass[k])}

\* C20: extract_ip returns an address only for a Link that starts with
\* vless:// in lower case, while quick_filter accepts the scheme in any
\* case.  So where the stage 2 loop runs ("geo" mode), a Link that passes
\* quick_filter with the scheme in upper or mixed case and a bare IPv4 host
\* has no address for extract_ip, ends in isp_problem and not in
\* final_clean, and is never handed to check_ip_with_geoasn, whatever the
\* status of its address is or would be.
C20_SchemeCaseMismatch ==
  /\ \A p \in DOMAIN links :
       /\ ~NoAddress(p) => startswith(Text(links[p]), S_scheme)
       /\ OtherCase(p) => NoAddress(p)
       /\ (OtherCase(p) /\ i > p) => InList(stage1_pass, p)
  /\ CHECK_IP_MODE = "geo" =>
       /\ last_call.n > 0 => ~OtherCase(last_call.pos)
       /\ last_call.n <= Cardinality(WithAddress)
       /\ PartitionsFinal =>
            /\ last_call.n = Cardinality(WithAddress)
            /\ \A p \in DOMAIN links :
                 OtherCase(p) =>
                   /\ InList(isp_problem, p)
                   /\ ~InList(final_clean, p)

\* A finished run of the origin check with the address in a Link of
\* lower-case scheme, checked "clean" and in final_clean, and in a Link of
\* another case, in isp_problem after the only check of the run.
C20_Witness ==
  /\ CHECK_IP_MODE = "geo"
  /\ pc = "done"
  /\ last_call.n = 1
  /\ last_call.status = "clean"
  /\ InList(final_clean, last_call.pos)
  /\ \E p \in DOMAIN links :
       /\ OtherCase(p)
       /\ AddressIfLower(Text(links[p])) = last_call.ip
       /\ InList(isp_problem, p)

====
